---- MODULE Spec2Model ----
(***************************************************************************)
(* NestServerGrpc (nestjs-grpc-server): the Stream Writer                  *)
(* (writeObservableToGrpc), the call adapters and their listeners on the   *)
(* call, the pattern registry (addHandler / createPattern), the service    *)
(* binder (createService / createServiceMethod) and the server start       *)
(* (listen / start / bindEvents / createServices), as state machines       *)
(* translated from the source.                                             *)
(***************************************************************************)
EXTENDS Integers, Sequences, FiniteSets, TLC

\* Bounds of the model.
MaxEmit == 4      \* values one producer emits at most
MaxCancel == 2    \* cancel events the transport delivers at most
MaxReqData == 2   \* 'data' events one call delivers at most
MaxReqError == 1  \* 'error' events one call delivers at most
MaxPackages == 2  \* package names in options.package at most
MaxCloses == 1    \* close() calls at most

\* Values a producer can emit.
Values == {1, 2}

VARIABLES
  \* ---- server-streaming call: createStreamServiceMethod + writeObservableToGrpc
  spc,             \* position of the async adapter function
  buffer,          \* const buffer: T[]
  isComplete,      \* let isComplete
  clearToWrite,    \* let clearToWrite
  drainListening,  \* call.on('drain', drainHandler) still registered
  cancelListening, \* call.on(CANCEL_EVENT, cancelHandler) still registered
  subscribed,      \* the subscription to source is open
  src,             \* the producer: "cold", "active", "completed", "errored"
  produced,        \* values the producer delivered to next(), in order
  promise,         \* the promise writeObservableToGrpc returned
  callLog,         \* operations invoked on the call, and cancel events, in order
  cancels,         \* cancel events delivered so far
  needDrain        \* the transport: the last call.write returned false and no
                   \* 'drain' has been emitted since

streamVars == <<spc, buffer, isComplete, clearToWrite, drainListening,
                cancelListening, subscribed, src, produced, promise,
                callLog, cancels, needDrain>>

VARIABLES
  \* ---- pattern registry and service binder
  messageHandlers, \* this.messageHandlers: Map<string, MessageHandler>
  lastCanonical,   \* per (service, rpc, streaming): handler of the most recent
                   \* registration made under the createPattern key
  nRegs,           \* addHandler calls so far
  bound,           \* the latest createService call has returned
  grpcService,     \* the service definition createService was given
  service,         \* the `service` object of the latest createService call:
                   \* methodName -> bound method
  awaited,         \* the method whose assignment createService is suspended on
  pendingKeys,     \* the keys the loop of createService has still to visit
  lookedUp,        \* per visited method: this.messageHandlers as it was when
                   \* the loop looked the method up
  nBinds           \* createService calls so far

bindVars == <<messageHandlers, lastCanonical, nRegs, bound, grpcService, service,
              awaited, pendingKeys, lookedUp, nBinds>>

VARIABLES
  \* ---- one call through a single-response adapter:
  \* createUnaryServiceMethod, createRequestStreamMethod (isResponseStream false)
  cpc,             \* position of the async adapter function
  cmethod,         \* the bound method that was invoked
  result,          \* what the handler does: returns, throws, rejects, a sequence
  res,             \* the handler's result sequence: "none", "active", "completed", "errored"
  emitted,         \* values the result sequence emitted, in order
  awaitingData,    \* unary: values whose `await data` has not resumed yet
  hasValue,        \* lastValueFrom / defaultIfEmpty: a value was seen
  lastValue,       \* lastValueFrom: the latest value seen
  response,        \* what `await lastValueFrom(...)` resolves with
  cancelSeen,      \* takeUntil(fromEvent(call, CANCEL_EVENT)) fired
  cbLog            \* the invocations of callback, in order

callVars == <<cpc, cmethod, result, res, emitted, awaitingData, hasValue,
              lastValue, response, cancelSeen, cbLog>>

VARIABLES
  \* ---- request side of createRequestStreamMethod: the listeners on the call
  rqpc,            \* "idle", or "listening" once the listeners are registered
  req,             \* const req = new Subject(): "open", "completed", "errored"
  reqValues,       \* values the request sequence delivered, in order
  reqFailure,      \* the error the request sequence failed with
  dataSeen,        \* 'data' events the call delivered, in order
  errorsSeen,      \* 'error' events the call delivered, in order
  listenerEnds     \* call.end() invocations made by the 'error' listener

reqVars == <<rqpc, req, reqValues, reqFailure, dataSeen, errorsSeen, listenerEnds>>

VARIABLES
  \* ---- server start: listen, start, bindEvents, createServices
  lpc,             \* position of listen(): "idle", "createClient", "loadProto",
                   \* "bindEvents", "listening", "rejected" (a rejection is
                   \* on its way to the catch of listen), "failed"
  options,         \* this.options: package, serviceDefinitions
  packageIndex,    \* bindEvents: packages whose loop iteration was entered
  definitions,     \* createServices: services of the current package still
                   \* to be created and added
  definitionIndex, \* bindEvents: serviceDefinitions entries added
  listenLog,       \* package lookups, grpcClient.addService, grpcClient.start,
                   \* callback invocations, close() calls and the shutdown
                   \* calls they make, in order
  grpcClient,      \* this.grpcClient: "undefined", "server" or "null"
  pendingShutdowns,\* tryShutdown calls whose callback has not run yet
  resolvedShutdowns,\* close() calls whose tryShutdown has resolved and whose
                   \* await has not resumed yet
  nCloses,         \* close() calls so far
  creating         \* bindEvents or createServices is suspended at an
                   \* `await this.createService(...)`

listenVars == <<lpc, options, packageIndex, definitions, definitionIndex, listenLog,
                grpcClient, pendingShutdowns, resolvedShutdowns, nCloses, creating>>

vars == <<streamVars, bindVars, callVars, reqVars, listenVars>>

otherThanStream == <<bindVars, callVars, reqVars, listenVars>>
otherThanBind == <<streamVars, callVars, reqVars, listenVars>>
otherThanCall == <<streamVars, bindVars, reqVars, listenVars>>
otherThanReq == <<streamVars, bindVars, callVars, listenVars>>
otherThanListen == <<streamVars, bindVars, callVars, reqVars>>

\* ---- entries of callLog
WriteOp(v) == [op |-> "write", val |-> v]
EndOp == [op |-> "end", val |-> 0]
EmitErrorOp == [op |-> "emitError", val |-> 0]
CancelEv == [op |-> "cancel", val |-> 0]

\* ------------------------------------------------------------------------
\* writeObservableToGrpc
\* ------------------------------------------------------------------------

\* cleanup(): every registered cleanup runs: call.off('drain'), call.off(CANCEL_EVENT)
cleanupSkipped == UNCHANGED <<drainListening, cancelListening>>
cleanupCancelOnly == cancelListening' = FALSE /\ UNCHANGED drainListening
cleanup == drainListening' = FALSE /\ cancelListening' = FALSE

\* write(value): clearToWrite = call.write(value); ok is what call.write returns
writeIgnoringResult(log, value, ok) ==
  /\ callLog' = Append(log, WriteOp(value))
  /\ clearToWrite' = TRUE
  /\ needDrain' = ~ok
write(log, value, ok) ==
  /\ callLog' = Append(log, WriteOp(value))
  /\ clearToWrite' = ok
  /\ needDrain' = ~ok

\* done(): call.end(); resolve(); cleanup()
done(log) ==
  /\ callLog' = Append(log, EndOp)
  /\ promise' = "resolved"
  /\ cleanup

\* The adapter invokes the handler and, when that succeeds, enters
\* writeObservableToGrpc: the promise executor registers both listeners and
\* subscribes to the source.
StreamInvoke(outcome) ==
  /\ UNCHANGED otherThanStream
  /\ spc = "init"
  /\ IF outcome = "returns"
       THEN /\ spc' = "await"
            /\ drainListening' = TRUE
            /\ cancelListening' = TRUE
            /\ subscribed' = TRUE
            /\ src' = "active"
       ELSE /\ spc' = "rejected"
            /\ UNCHANGED <<drainListening, cancelListening, subscribed, src>>
  /\ UNCHANGED <<buffer, isComplete, clearToWrite, produced, promise, callLog,
                 cancels, needDrain>>

\* next: (value) => clearToWrite ? write(value) : buffer.push(value)
SourceNext(value, ok) ==
  /\ UNCHANGED otherThanStream
  /\ subscribed /\ src = "active"
  /\ Len(produced) < MaxEmit
  /\ produced' = Append(produced, value)
  /\ IF clearToWrite
       THEN write(callLog, value, ok) /\ UNCHANGED buffer
       ELSE buffer' = Append(buffer, value)
            /\ UNCHANGED <<callLog, clearToWrite, needDrain>>
  /\ UNCHANGED <<spc, isComplete, drainListening, cancelListening, subscribed,
                 src, promise, cancels>>

\* error: (err) => { call.emit('error', err); reject(err); cleanup(); }
sourceError ==
  /\ subscribed /\ src = "active"
  /\ src' = "errored"
  /\ subscribed' = FALSE
  /\ callLog' = Append(callLog, EmitErrorOp)
  /\ promise' = "rejected"
  /\ cleanup
  /\ UNCHANGED <<spc, buffer, isComplete, clearToWrite, produced, cancels,
                 needDrain>>

\* the producer fails in the Server-Stream adapter, which registers no
\* 'error' listener on the call
SourceError ==
  /\ UNCHANGED otherThanStream
  /\ sourceError

\* complete: () => { isComplete = true; if (buffer.length === 0) done(); }
SourceComplete ==
  /\ UNCHANGED otherThanStream
  /\ subscribed /\ src = "active"
  /\ src' = "completed"
  /\ subscribed' = FALSE
  /\ isComplete' = TRUE
  /\ IF Len(buffer) = 0
       THEN done(callLog)
       ELSE UNCHANGED <<callLog, promise, drainListening, cancelListening>>
  /\ UNCHANGED <<spc, buffer, clearToWrite, produced, cancels, needDrain>>

\* drainHandler, run when the transport emits 'drain' (nothing runs once the
\* listener is off)
drainHandler(ok) ==
  IF ~clearToWrite
    THEN IF Len(buffer) > 0
           THEN /\ write(callLog, Head(buffer), ok)
                /\ buffer' = Tail(buffer)
                /\ UNCHANGED <<promise, drainListening, cancelListening>>
           ELSE IF isComplete
                  THEN /\ done(callLog)
                       /\ clearToWrite' = TRUE
                       /\ UNCHANGED buffer
                  ELSE /\ clearToWrite' = TRUE
                       /\ UNCHANGED <<callLog, buffer, promise, drainListening,
                                      cancelListening>>
    ELSE UNCHANGED <<callLog, clearToWrite, buffer, promise, drainListening,
                     cancelListening>>

\* The transport emits 'drain': what it owed is paid, and the listener, if
\* registered, runs (its write decides whether a new drain is owed). A drain
\* that arrives before the registration or after the cleanup runs nothing.
Drain(ok) ==
  /\ UNCHANGED otherThanStream
  /\ IF drainListening
       THEN drainHandler(ok)
       ELSE UNCHANGED <<callLog, clearToWrite, buffer, promise, drainListening,
                        cancelListening>>
  /\ IF drainListening /\ ~clearToWrite /\ Len(buffer) > 0
       THEN TRUE
       ELSE needDrain' = FALSE
  /\ UNCHANGED <<spc, isComplete, subscribed, src, produced, cancels>>

\* cancelHandler: subscription.unsubscribe(); done();
cancelHandler ==
  /\ subscribed' = FALSE
  /\ done(Append(callLog, CancelEv))

\* The call emits CANCEL_EVENT: the listener runs if it is registered; an
\* event that arrives before the registration (the adapter is still at
\* `await handler`) or after the cleanup finds no listener and is lost.
Cancel ==
  /\ UNCHANGED otherThanStream
  /\ cancels < MaxCancel
  /\ cancels' = cancels + 1
  /\ IF cancelListening
       THEN cancelHandler
       ELSE /\ callLog' = Append(callLog, CancelEv)
            /\ UNCHANGED <<subscribed, promise, drainListening, cancelListening>>
  /\ UNCHANGED <<spc, buffer, isComplete, clearToWrite, src, produced, needDrain>>

\* createStreamServiceMethod after `await this.writeObservableToGrpc(...)`:
\* a rejection is caught and emitted on the call, then the function returns
StreamResume ==
  /\ UNCHANGED otherThanStream
  /\ spc = "await"
  /\ promise # "pending"
  /\ spc' = "returned"
  /\ IF promise = "rejected"
       THEN callLog' = Append(callLog, EmitErrorOp)
       ELSE UNCHANGED callLog
  /\ UNCHANGED <<buffer, isComplete, clearToWrite, drainListening, cancelListening,
                 subscribed, src, produced, promise, cancels, needDrain>>

StreamInit ==
  /\ spc = "init"
  /\ buffer = <<>>
  /\ isComplete = FALSE
  /\ clearToWrite = TRUE
  /\ drainListening = FALSE
  /\ cancelListening = FALSE
  /\ subscribed = FALSE
  /\ src = "cold"
  /\ produced = <<>>
  /\ promise = "pending"
  /\ callLog = <<>>
  /\ cancels = 0
  /\ needDrain = FALSE

StreamNext ==
  \/ \E outcome \in {"returns", "throws", "rejects"} : StreamInvoke(outcome)
  \/ \E v \in Values, ok \in BOOLEAN : SourceNext(v, ok)
  \/ SourceError
  \/ SourceComplete
  \/ \E ok \in BOOLEAN : Drain(ok)
  \/ Cancel
  \/ StreamResume


\* ------------------------------------------------------------------------
\* Pattern registry: addHandler, createPattern
\* ------------------------------------------------------------------------
MaxRegs == 2      \* addHandler calls at most
MaxBinds == 1     \* createService calls at most
MaxCallMethods == 1 \* methods of the service a modelled call goes to, at most

\* `undefined`: a Map miss, an empty result
Undefined == 0
Handlers == {1, 2}

\* GrpcMethodStreamingType
NO_STREAMING == "no_stream"
RX_STREAMING == "rx_stream"
PT_STREAMING == "pt_stream"
StreamingTypes == {NO_STREAMING, RX_STREAMING, PT_STREAMING}

\* A service name is the sequence of its tokens, "." being one token.
ServiceNames == {<<"GreetService">>}
RpcNames == {"hello", "Hello"}
Triples == [service : ServiceNames, rpc : RpcNames, streaming : StreamingTypes]

\* An object is its fields and the order they were inserted in; a JSON text
\* is the sequence of its "key":value members.
CanonicalOrder == <<"service", "rpc", "streaming">>
FieldOrders == {CanonicalOrder, <<"rpc", "service", "streaming">>}

\* JSON.stringify(object): the members in insertion order
JSONstringify(order, fields) ==
  [i \in 1..Len(order) |-> <<order[i], fields[order[i]]>>]

\* createPattern: JSON.stringify({ service, rpc: methodName, streaming })
createPatternRpcFirst(svc, methodName, streaming) ==
  JSONstringify(<<"rpc", "service", "streaming">>,
                [service |-> svc, rpc |-> methodName, streaming |-> streaming])
createPattern(svc, methodName, streaming) ==
  JSONstringify(CanonicalOrder,
                [service |-> svc, rpc |-> methodName, streaming |-> streaming])

\* The patterns addHandler is given: a string, or an object
StringPattern(text) == [isString |-> TRUE, text |-> text]
ObjectPattern(order, fields) == [isString |-> FALSE, order |-> order, fields |-> fields]
Patterns ==
  {StringPattern(JSONstringify(o, t)) : o \in FieldOrders, t \in Triples}
  \cup {ObjectPattern(o, t) : o \in FieldOrders, t \in Triples}

\* Map.prototype.get / set
MapGet(map, key) == IF key \in DOMAIN map THEN map[key] ELSE Undefined
MapSet(map, key, value) ==
  [k \in DOMAIN map \cup {key} |-> IF k = key THEN value ELSE map[k]]

\* route = isString(pattern) ? pattern : JSON.stringify(pattern)
Route(pattern) ==
  IF pattern.isString THEN pattern.text
  ELSE JSONstringify(pattern.order, pattern.fields)

\* the triple a registration is made for, when its pattern is the
\* createPattern key (as a string, or as the object createPattern serialises)
CanonicalTripleOf(pattern) ==
  {t \in Triples :
     IF pattern.isString
       THEN pattern.text = JSONstringify(CanonicalOrder, t)
       ELSE pattern.order = CanonicalOrder /\ pattern.fields = t}

\* addHandler(pattern, callback)
addHandler(pattern, callback) ==
  /\ nRegs < MaxRegs
  /\ nRegs' = nRegs + 1
  /\ messageHandlers' = MapSet(messageHandlers, Route(pattern), callback)
  /\ lastCanonical' = [t \in Triples |->
                         IF t \in CanonicalTripleOf(pattern) THEN callback
                         ELSE lastCanonical[t]]
  /\ UNCHANGED <<bound, grpcService, service, awaited, pendingKeys, lookedUp, nBinds>>
  /\ UNCHANGED otherThanBind

\* ------------------------------------------------------------------------
\* Service binder: createService, createServiceMethod
\* ------------------------------------------------------------------------

\* a method of a grpc.ServiceDefinition
MethodDefinitions ==
  [originalName : RpcNames, requestStream : BOOLEAN, responseStream : BOOLEAN]
\* the service definitions: one or two methods, keyed by wire method name
ServiceDefinitions ==
  UNION {[names -> MethodDefinitions] : names \in (SUBSET RpcNames) \ {{}}}

\* createServiceMethod(methodHandler, protoNativeHandler, streamType)
createServiceMethodAlwaysRx(methodHandler, protoNativeHandler, streamType) ==
  IF protoNativeHandler.requestStream
    THEN [adapter |-> "createRequestStreamMethod", handler |-> methodHandler,
          isResponseStream |-> protoNativeHandler.responseStream]
    ELSE [adapter |-> IF protoNativeHandler.responseStream
                        THEN "createStreamServiceMethod"
                        ELSE "createUnaryServiceMethod",
          handler |-> methodHandler,
          isResponseStream |-> protoNativeHandler.responseStream]
createServiceMethod(methodHandler, protoNativeHandler, streamType) ==
  IF protoNativeHandler.requestStream /\ streamType = RX_STREAMING
    THEN [adapter |-> "createRequestStreamMethod", handler |-> methodHandler,
          isResponseStream |-> protoNativeHandler.responseStream]
  ELSE IF protoNativeHandler.requestStream /\ streamType = PT_STREAMING
    THEN [adapter |-> "createStreamCallMethod", handler |-> methodHandler,
          isResponseStream |-> protoNativeHandler.responseStream]
  ELSE [adapter |-> IF protoNativeHandler.responseStream
                      THEN "createStreamServiceMethod"
                      ELSE "createUnaryServiceMethod",
        handler |-> methodHandler,
        isResponseStream |-> protoNativeHandler.responseStream]

\* createService, the body of its loop up to `if (!methodHandler) continue`:
\* the handler found for one method and the streaming type it was looked up with
resolveHandlerPassThroughFirst(handlers, name, methodName, methodFunction) ==
  LET first ==
        IF methodFunction.requestStream
          THEN IF MapGet(handlers, createPattern(name, methodName, PT_STREAMING)) # Undefined
                 THEN [methodHandler |-> MapGet(handlers, createPattern(name, methodName, PT_STREAMING)),
                       streamingType |-> PT_STREAMING]
                 ELSE [methodHandler |-> MapGet(handlers, createPattern(name, methodName, RX_STREAMING)),
                       streamingType |-> RX_STREAMING]
          ELSE [methodHandler |-> MapGet(handlers, createPattern(name, methodName, NO_STREAMING)),
                streamingType |-> NO_STREAMING]
  IN IF first.methodHandler = Undefined /\ methodName # methodFunction.originalName
       THEN [methodHandler |->
               MapGet(handlers, createPattern(name, methodFunction.originalName,
                                              first.streamingType)),
             streamingType |-> first.streamingType]
       ELSE first
resolveHandler(handlers, name, methodName, methodFunction) ==
  LET first ==
        IF methodFunction.requestStream
          THEN IF MapGet(handlers, createPattern(name, methodName, RX_STREAMING)) # Undefined
                 THEN [methodHandler |-> MapGet(handlers, createPattern(name, methodName, RX_STREAMING)),
                       streamingType |-> RX_STREAMING]
                 ELSE [methodHandler |-> MapGet(handlers, createPattern(name, methodName, PT_STREAMING)),
                       streamingType |-> PT_STREAMING]
          ELSE [methodHandler |-> MapGet(handlers, createPattern(name, methodName, NO_STREAMING)),
                streamingType |-> NO_STREAMING]
  IN IF first.methodHandler = Undefined /\ methodName # methodFunction.originalName
       THEN [methodHandler |->
               MapGet(handlers, createPattern(name, methodFunction.originalName,
                                              first.streamingType)),
             streamingType |-> first.streamingType]
       ELSE first

\* what `service[methodName] = await ...` is waiting to assign; the empty
\* method name when createService is not suspended
NoMethod == [adapter |-> "none", handler |-> Undefined, isResponseStream |-> FALSE]
NotAwaited == [methodName |-> "", method |-> NoMethod]

\* the orders in which `for (const methodName in grpcService)` can enumerate
\* the keys of a definition (the insertion order of the object)
KeyOrders(definition) ==
  {o \in [1..Cardinality(DOMAIN definition) -> DOMAIN definition] :
     \A i, j \in DOMAIN o : o[i] = o[j] => i = j}

\* the loop of createService from the key at the head of `keys`: methods
\* without a handler are skipped by `continue`, the first one with a handler
\* has its adapter built and the loop suspends at the await of its assignment
RECURSIVE createServiceLoop(_, _, _, _)
createServiceLoop(handlers, definition, name, keys) ==
  IF keys = <<>>
    THEN [found |-> FALSE, methodName |-> "", method |-> NoMethod,
          rest |-> <<>>, scanned |-> {}]
    ELSE LET methodName == Head(keys)
             r == resolveHandler(handlers, name, methodName, definition[methodName])
         IN IF r.methodHandler = Undefined
              THEN LET n == createServiceLoop(handlers, definition, name, Tail(keys))
                   IN [n EXCEPT !.scanned = n.scanned \cup {methodName}]
              ELSE [found |-> TRUE, methodName |-> methodName,
                    method |-> createServiceMethod(r.methodHandler,
                                                   definition[methodName],
                                                   r.streamingType),
                    rest |-> Tail(keys), scanned |-> {methodName}]

\* one synchronous run of the loop: up to the next await or to `return service`
createServiceRun(svc, seen, definition, name, keys) ==
  LET n == createServiceLoop(messageHandlers, definition, name, keys) IN
    /\ service' = svc
    /\ awaited' = [methodName |-> n.methodName, method |-> n.method]
    /\ pendingKeys' = n.rest
    /\ lookedUp' = [m \in DOMAIN seen \cup n.scanned |->
                      IF m \in n.scanned THEN messageHandlers ELSE seen[m]]
    /\ bound' = ~n.found

\* createService(grpcService, name) is called and runs up to the first await
\* inside it
createServiceCall(definition, keys, name) ==
  /\ nBinds' = nBinds + 1
  /\ grpcService' = [name |-> name, methods |-> definition]
  /\ createServiceRun(<<>>, <<>>, definition, name, keys)
  /\ UNCHANGED <<messageHandlers, lastCanonical, nRegs>>

\* createService called on its own
CreateService(definition, keys, name) ==
  /\ awaited = NotAwaited
  /\ nBinds < MaxBinds
  /\ createServiceCall(definition, keys, name)
  /\ UNCHANGED otherThanBind

\* the await of `service[methodName] = await this.createServiceMethod(...)`
\* resumes: the method is assigned and the loop goes on with the next key
CreateServiceResume ==
  /\ awaited # NotAwaited
  /\ createServiceRun([m \in DOMAIN service \cup {awaited.methodName} |->
                         IF m = awaited.methodName THEN awaited.method ELSE service[m]],
                      lookedUp, grpcService.methods, grpcService.name, pendingKeys)
  /\ UNCHANGED <<messageHandlers, lastCanonical, nRegs, nBinds, grpcService>>
  /\ UNCHANGED otherThanBind

BindInit ==
  /\ messageHandlers = <<>>
  /\ lastCanonical = [t \in Triples |-> Undefined]
  /\ nRegs = 0
  /\ bound = FALSE
  /\ grpcService = [name |-> "", methods |-> <<>>]
  /\ service = <<>>
  /\ awaited = NotAwaited
  /\ pendingKeys = <<>>
  /\ lookedUp = <<>>
  /\ nBinds = 0


\* ------------------------------------------------------------------------
\* Single-response adapters: createUnaryServiceMethod and
\* createRequestStreamMethod with isResponseStream false
\* ------------------------------------------------------------------------
MaxResEmit == 2   \* values one handler result sequence emits at most

\* what a handler's result sequence can emit: a message, or `undefined`
ResultValues == Values \cup {Undefined}

\* What a handler does when invoked: return a value, return a promise that
\* resolves with a value or rejects, throw, or return a sequence.
HandlerResults ==
  [kind : {"value", "promise"}, val : ResultValues]
  \cup [kind : {"rejects", "throws", "observable"}, val : {Undefined}]

\* entries of cbLog: callback(null, value) and callback(err)
CallbackValue(v) == [err |-> FALSE, val |-> v]
CallbackError == [err |-> TRUE, val |-> Undefined]

\* const req = new Subject(); call.on('data' | 'error' | 'end', ...)
reqListen ==
  /\ rqpc' = "listening"
  /\ UNCHANGED <<req, reqValues, reqFailure, dataSeen, errorsSeen, listenerEnds>>

\* The bound method is invoked: createRequestStreamMethod registers its
\* listeners on the call first; the handler is called; a throw ends the
\* async function at once, otherwise it suspends at `await handler`.
Invoke(methodName, r) ==
  /\ bound /\ cpc = "idle"
  /\ methodName \in DOMAIN service
  /\ \/ service[methodName].adapter = "createUnaryServiceMethod"
     \/ /\ service[methodName].adapter = "createRequestStreamMethod"
        /\ ~service[methodName].isResponseStream
  /\ cmethod' = service[methodName]
  /\ result' = r
  /\ cpc' = IF r.kind = "throws" THEN "rejected" ELSE "awaiting"
  /\ UNCHANGED <<res, emitted, awaitingData, hasValue, lastValue, response,
                 cancelSeen, cbLog>>
  /\ IF service[methodName].adapter = "createRequestStreamMethod"
       THEN reqListen
       ELSE UNCHANGED reqVars
  /\ UNCHANGED <<streamVars, bindVars, listenVars>>

\* `await handler` resumes. A rejection ends the async function. Otherwise
\* transformToObservable(...) is subscribed: of(value), for a handler that
\* returned a value or a promise of one, emits the value and completes
\* inside subscribe; a returned sequence is left to emit later.
\* unary:    next: async data => callback(null, await data)
\* reactive: lastValueFrom(...) sees the value and the completion
Subscribe ==
  /\ cpc = "awaiting"
  /\ IF result.kind = "rejects"
       THEN /\ cpc' = "rejected"
            /\ UNCHANGED <<res, emitted, awaitingData, hasValue, lastValue, response>>
       ELSE IF result.kind = "observable"
         THEN /\ cpc' = "subscribed"
              /\ res' = "active"
              /\ UNCHANGED <<emitted, awaitingData, hasValue, lastValue, response>>
         ELSE /\ res' = "completed"
              /\ emitted' = <<result.val>>
              /\ IF cmethod.adapter = "createUnaryServiceMethod"
                   THEN /\ cpc' = "subscribed"
                        /\ awaitingData' = <<result.val>>
                        /\ UNCHANGED <<hasValue, lastValue, response>>
                   ELSE /\ cpc' = "resolved"
                        /\ hasValue' = TRUE
                        /\ lastValue' = result.val
                        /\ response' = result.val
                        /\ UNCHANGED awaitingData
  /\ UNCHANGED <<cmethod, result, cancelSeen, cbLog>>
  /\ UNCHANGED otherThanCall

\* lastValueFrom: remember the latest value
trackFirst(v) ==
  /\ hasValue' = TRUE
  /\ lastValue' = IF hasValue THEN lastValue ELSE v
trackLast(v) ==
  /\ hasValue' = TRUE
  /\ lastValue' = v

\* the result sequence emits a value.
\* unary:    next: async data => callback(null, await data)
\* reactive: the value passes takeUntil, catchError, defaultIfEmpty to lastValueFrom
ResNext(v) ==
  /\ cpc = "subscribed" /\ res = "active"
  /\ Len(emitted) < MaxResEmit
  /\ emitted' = Append(emitted, v)
  /\ IF cmethod.adapter = "createUnaryServiceMethod"
       THEN /\ awaitingData' = Append(awaitingData, v)
            /\ UNCHANGED <<hasValue, lastValue>>
       ELSE /\ trackLast(v)
            /\ UNCHANGED awaitingData
  /\ UNCHANGED <<cpc, cmethod, result, res, response, cancelSeen, cbLog>>
  /\ UNCHANGED otherThanCall

\* unary: `await data` resumes and callback(null, data) runs
unaryDeliverUndefined(log, data) == Append(log, CallbackValue(Undefined))
unaryDeliver(log, data) == Append(log, CallbackValue(data))

UnaryCallback ==
  /\ cmethod.adapter = "createUnaryServiceMethod"
  /\ awaitingData # <<>>
  /\ cbLog' = unaryDeliver(cbLog, Head(awaitingData))
  /\ awaitingData' = Tail(awaitingData)
  /\ UNCHANGED <<cpc, cmethod, result, res, emitted, hasValue, lastValue,
                 response, cancelSeen>>
  /\ UNCHANGED otherThanCall

\* defaultIfEmpty(undefined) then lastValueFrom: the value the promise
\* resolves with when the piped sequence completes
resolvedValue == IF hasValue THEN lastValue ELSE Undefined

\* the result sequence errors.
\* unary:    error: err => callback(err)
\* reactive: catchError(err => { callback(err, null); return EMPTY }), and the
\*           piped sequence completes
ResError ==
  /\ cpc = "subscribed" /\ res = "active"
  /\ res' = "errored"
  /\ cbLog' = Append(cbLog, CallbackError)
  /\ IF cmethod.adapter = "createUnaryServiceMethod"
       THEN UNCHANGED <<cpc, response>>
       ELSE cpc' = "resolved" /\ response' = resolvedValue
  /\ UNCHANGED <<cmethod, result, emitted, awaitingData, hasValue, lastValue,
                 cancelSeen>>
  /\ UNCHANGED otherThanCall

\* the result sequence completes
ResComplete ==
  /\ cpc = "subscribed" /\ res = "active"
  /\ res' = "completed"
  /\ IF cmethod.adapter = "createUnaryServiceMethod"
       THEN UNCHANGED <<cpc, response>>
       ELSE cpc' = "resolved" /\ response' = resolvedValue
  /\ UNCHANGED <<cmethod, result, emitted, awaitingData, hasValue, lastValue,
                 cancelSeen, cbLog>>
  /\ UNCHANGED otherThanCall

\* The call emits CANCEL_EVENT. reactive, while the piped sequence is
\* subscribed: takeUntil unsubscribes from the result sequence and completes
\* the piped sequence. At any other moment (the adapter is still at
\* `await handler`, the piped sequence has ended, or the adapter is the unary
\* one) nothing listens and the event is lost.
CallCancel ==
  /\ IF cpc = "subscribed" /\ res = "active"
        /\ cmethod.adapter = "createRequestStreamMethod"
       THEN /\ cancelSeen' = TRUE
            /\ cpc' = "resolved"
            /\ response' = resolvedValue
       ELSE UNCHANGED <<cancelSeen, cpc, response>>
  /\ UNCHANGED <<cmethod, result, res, emitted, awaitingData, hasValue,
                 lastValue, cbLog>>
  /\ UNCHANGED otherThanCall

\* reactive, after `await lastValueFrom(...)`:
\* if (!isUndefined(response)) callback(null, response)
RequestStreamResume ==
  /\ cpc = "resolved"
  /\ cpc' = "returned"
  /\ IF response # Undefined
       THEN cbLog' = Append(cbLog, CallbackValue(response))
       ELSE UNCHANGED cbLog
  /\ UNCHANGED <<cmethod, result, res, emitted, awaitingData, hasValue,
                 lastValue, response, cancelSeen>>
  /\ UNCHANGED otherThanCall

CallInit ==
  /\ cpc = "idle"
  /\ cmethod = [adapter |-> "none", handler |-> Undefined, isResponseStream |-> FALSE]
  /\ result = [kind |-> "none", val |-> Undefined]
  /\ res = "none"
  /\ emitted = <<>>
  /\ awaitingData = <<>>
  /\ hasValue = FALSE
  /\ lastValue = Undefined
  /\ response = Undefined
  /\ cancelSeen = FALSE
  /\ cbLog = <<>>

\* the patterns the GrpcMethod / GrpcStreamMethod / GrpcStreamCall decorators
\* register: the object { service, rpc, streaming }
DecoratorPatterns == {ObjectPattern(CanonicalOrder, t) : t \in Triples}

\* ------------------------------------------------------------------------
\* createRequestStreamMethod: the 'data', 'error' and 'end' listeners
\* ------------------------------------------------------------------------

\* Strings are sequences of characters.
UpperCase == <<"A", "B", "C", "D", "E", "F", "G", "H", "I", "J", "K", "L", "M",
               "N", "O", "P", "Q", "R", "S", "T", "U", "V", "W", "X", "Y", "Z">>
LowerCase == <<"a", "b", "c", "d", "e", "f", "g", "h", "i", "j", "k", "l", "m",
               "n", "o", "p", "q", "r", "s", "t", "u", "v", "w", "x", "y", "z">>

\* String.prototype.toLowerCase
toLowerCase(str) ==
  [i \in 1..Len(str) |->
     IF \E k \in 1..26 : UpperCase[k] = str[i]
       THEN LowerCase[CHOOSE k \in 1..26 : UpperCase[k] = str[i]]
       ELSE str[i]]

\* String.prototype.indexOf: the 0-based index of the first occurrence, or -1
indexOf(str, searchString) ==
  LET at == {i \in 0..(Len(str) - Len(searchString)) :
               SubSeq(str, i + 1, i + Len(searchString)) = searchString}
  IN IF at = {} THEN -1 ELSE CHOOSE i \in at : \A j \in at : i <= j

\* the literal 'cancelled'
cancelled == <<"c", "a", "n", "c", "e", "l", "l", "e", "d">>

\* String(e) of the errors a call emits
ErrorStrings ==
  { <<"C", "a", "n", "c", "e", "l", "l", "e", "d">>,
    <<"1", " ", "C", "A", "N", "C", "E", "L", "L", "E", "D">>,
    <<"1", "4", " ", "U", "N", "A", "V", "A", "I", "L", "A", "B", "L", "E">> }

\* `if (isCancelledError)`: a number is falsy exactly when it is 0
isCancelledError(str) == indexOf(toLowerCase(str), cancelled) # 0

\* a call of a method bound by createRequestStreamMethod has run as far as
\* the registration of the three listeners
ReqListen ==
  /\ UNCHANGED otherThanReq
  /\ rqpc = "idle"
  /\ reqListen

\* call.on('data', (m) => req.next(m)); a stopped Subject ignores next
CallData(m) ==
  /\ UNCHANGED otherThanReq
  /\ rqpc = "listening"
  /\ Len(dataSeen) < MaxReqData
  /\ dataSeen' = Append(dataSeen, m)
  /\ reqValues' = IF req = "open" THEN Append(reqValues, m) ELSE reqValues
  /\ UNCHANGED <<rqpc, req, reqFailure, errorsSeen, listenerEnds>>

\* the 'error' listener: (e) => { if (isCancelledError) { call.end(); return; }
\*                               req.error(e); }
errorListener(e) ==
  IF isCancelledError(e)
    THEN /\ listenerEnds' = listenerEnds + 1
         /\ UNCHANGED <<req, reqFailure>>
    ELSE /\ IF req = "open"
              THEN req' = "errored" /\ reqFailure' = e
              ELSE UNCHANGED <<req, reqFailure>>
         /\ UNCHANGED listenerEnds

\* the transport emits 'error' on the call: call.on('error', ...)
CallError(e) ==
  /\ UNCHANGED otherThanReq
  /\ rqpc = "listening"
  /\ Len(errorsSeen) < MaxReqError
  /\ errorsSeen' = Append(errorsSeen, e)
  /\ errorListener(e)
  /\ UNCHANGED <<rqpc, reqValues, dataSeen>>

\* call.on('end', () => req.complete())
CallEnd ==
  /\ UNCHANGED otherThanReq
  /\ rqpc = "listening"
  /\ req = "open"
  /\ req' = "completed"
  /\ UNCHANGED <<rqpc, reqValues, reqFailure, dataSeen, errorsSeen, listenerEnds>>

ReqInit ==
  /\ rqpc = "idle"
  /\ req = "open"
  /\ reqValues = <<>>
  /\ reqFailure = <<>>
  /\ dataSeen = <<>>
  /\ errorsSeen = <<>>
  /\ listenerEnds = 0

\* ------------------------------------------------------------------------
\* Server start: listen, start, bindEvents, lookupPackage, createServices
\* ------------------------------------------------------------------------

\* The object loadProto returns: namespaces holding namespaces, message types
\* and service constructors; kids keeps the order of Object.keys.
\* a service constructor; its `service` is the definition createService is
\* given: the methods and the order `for..in` visits them in
ServiceNode(methods, keys) ==
  [type |-> "service", kids |-> <<>>, service |-> [methods |-> methods, keys |-> keys]]
UnaryMethod(originalName) ==
  [originalName |-> originalName, requestStream |-> FALSE, responseStream |-> FALSE]
ClientStreamMethod(originalName) ==
  [originalName |-> originalName, requestStream |-> TRUE, responseStream |-> FALSE]
GreetService ==
  ServiceNode([hello |-> UnaryMethod("Hello"), Hello |-> ClientStreamMethod("Hello")],
              <<"hello", "Hello">>)
OneMethodService == ServiceNode([hello |-> UnaryMethod("hello")], <<"hello">>)
MessageNode == [type |-> "message", kids |-> <<>>]
UndefinedNode == [type |-> "undefined", kids |-> <<>>]
NamespaceNode(kids) == [type |-> "namespace", kids |-> kids]
grpcContext ==
  NamespaceNode(<<
    [name |-> "greet", node |-> NamespaceNode(<<
       [name |-> "v1", node |-> NamespaceNode(<<
          [name |-> "HelloRequest", node |-> MessageNode],
          [name |-> "GreetService", node |-> GreetService],
          [name |-> "admin", node |-> NamespaceNode(<<
             [name |-> "AdminService", node |-> OneMethodService]>>)]>>)]>>)],
    [name |-> "echo", node |-> NamespaceNode(<<
       [name |-> "EchoService", node |-> OneMethodService]>>)]>>)

\* pkg[name]
Prop(pkg, name) ==
  IF \E i \in 1..Len(pkg.kids) : pkg.kids[i].name = name
    THEN pkg.kids[CHOOSE i \in 1..Len(pkg.kids) : pkg.kids[i].name = name].node
    ELSE UndefinedNode

\* Names are sequences of tokens, "." being one token.
\* packageName.split(/\./)
RECURSIVE split(_)
split(str) ==
  LET dots == {i \in 1..Len(str) : str[i] = "."}
      piece(t) == IF t = <<>> THEN "" ELSE t[1]
  IN IF dots = {}
       THEN <<piece(str)>>
       ELSE LET i == CHOOSE d \in dots : \A e \in dots : d <= e
            IN <<piece(SubSeq(str, 1, i - 1))>> \o split(SubSeq(str, i + 1, Len(str)))

\* lookupPackage: `pkg = pkg[name]` for every piece of the name; reading a
\* property of undefined throws
RECURSIVE lookupPieces(_, _)
lookupPieces(pkg, names) ==
  IF names = <<>>
    THEN [threw |-> FALSE, pkg |-> pkg]
    ELSE IF pkg.type = "undefined"
           THEN [threw |-> TRUE, pkg |-> UndefinedNode]
           ELSE lookupPieces(Prop(pkg, Head(names)), Tail(names))
lookupPackage(root, packageName) == lookupPieces(root, split(packageName))

\* parseDeepServiceName: key, or name + '.' + key
parseDeepServiceName(name, key) ==
  IF Len(name) = 0 THEN <<key>> ELSE name \o <<".", key>>

\* collectDeepServices / getServiceNames: the services below grpcPkg, each
\* as { name, service } with its dotted name, in traversal order
RECURSIVE collectDeepServices(_, _), collectKeys(_, _)
collectKeys(name, kids) ==
  IF kids = <<>>
    THEN <<>>
    ELSE LET nameExtended == parseDeepServiceName(name, Head(kids).name)
             deepDefinition == Head(kids).node
         IN (IF deepDefinition.type = "service"
               THEN <<[name |-> nameExtended, service |-> deepDefinition]>>
               ELSE collectDeepServices(nameExtended, deepDefinition))
            \o collectKeys(name, Tail(kids))
collectDeepServices(name, grpcDefinition) ==
  IF grpcDefinition.type \notin {"namespace", "message"}
    THEN <<>>
    ELSE collectKeys(name, grpcDefinition.kids)
getServiceNames(grpcPkg) == collectDeepServices(<<>>, grpcPkg)

\* createServices: `if (!grpcPkg) throw invalidPackageError`
createServicesNeverThrows(grpcPkg) == FALSE
createServicesThrows(grpcPkg) == grpcPkg.type = "undefined"

\* options.package and options.serviceDefinitions. A package is named once
\* and no service is configured twice: grpc's addService refuses a second
\* implementation of a method.
PackageNames ==
  { <<"greet", ".", "v1">>, <<"echo">>, <<"greet", ".", "v2">>,
    <<"missing", ".", "v1">> }
DefinitionNames == {<<"ExtraService">>, <<"MoreService">>}
DefinitionEntries ==
  {[name |-> n, service |-> OneMethodService.service] : n \in DefinitionNames}
NoRepeat(seq) == \A i, j \in 1..Len(seq) : seq[i] = seq[j] => i = j
PackageLists ==
  {l \in UNION {[1..n -> PackageNames] : n \in 0..MaxPackages} : NoRepeat(l)}
DefinitionLists ==
  {l \in UNION {[1..n -> DefinitionEntries] : n \in 0..2} : NoRepeat(l)}

\* ---- entries of listenLog
LookupEv(i) == [ev |-> "lookup", idx |-> i, name |-> <<>>]
AddServiceEv(i, name) == [ev |-> "addService", idx |-> i, name |-> name]
StartEv == [ev |-> "start", idx |-> 0, name |-> <<>>]
CallbackEv(err) == [ev |-> "callback", idx |-> IF err THEN 1 ELSE 0, name |-> <<>>]
CloseEv == [ev |-> "close", idx |-> 0, name |-> <<>>]
ForceShutdownEv == [ev |-> "forceShutdown", idx |-> 0, name |-> <<>>]
TryShutdownEv == [ev |-> "tryShutdown", idx |-> 0, name |-> <<>>]

\* whether this.grpcClient.addService(...) / .start() returns normally:
\* on null it is a TypeError; on a server whose tryShutdown has been called
\* the outcome is the transport library's, so both are possible
shutdownBegun == \E i \in 1..Len(listenLog) : listenLog[i].ev = "tryShutdown"
transportReturns ==
  IF grpcClient # "server" THEN {FALSE}
  ELSE IF shutdownBegun THEN BOOLEAN ELSE {TRUE}

\* listen(callback) on a server constructed with the given options: up to
\* the await of bindAsync inside createClient
listen(package, serviceDefinitions, gracefulShutdown) ==
  /\ UNCHANGED otherThanListen
  /\ lpc = "idle"
  /\ lpc' = "createClient"
  /\ options' = [package |-> package, serviceDefinitions |-> serviceDefinitions,
                 gracefulShutdown |-> gracefulShutdown]
  /\ UNCHANGED <<packageIndex, definitions, definitionIndex, listenLog,
                 grpcClient, pendingShutdowns, resolvedShutdowns, nCloses, creating>>

\* createClient: bindAsync reports an error or a port; an error rejects
\* createClient and reaches the catch of listen
createClient(ok) ==
  /\ UNCHANGED otherThanListen
  /\ lpc = "createClient"
  /\ lpc' = IF ok THEN "loadProto" ELSE "rejected"
  /\ UNCHANGED <<options, packageIndex, definitions, definitionIndex, listenLog,
                 grpcClient, pendingShutdowns, resolvedShutdowns, nCloses, creating>>

\* createServices, the loop over the services of a package from its next
\* iteration: `await this.createService(definition.service.service,
\* definition.name)` calls createService and suspends; after the last
\* service createServices returns
createServicesLoop(services) ==
  IF services # <<>>
    THEN /\ creating' = TRUE
         /\ createServiceCall(Head(services).service.service.methods,
                              Head(services).service.service.keys,
                              Head(services).name)
    ELSE /\ creating' = FALSE
         /\ UNCHANGED bindVars

\* bindEvents, the loop over serviceDefinitions from entry k + 1:
\* `await this.createService(serviceDefinition.service,
\* serviceDefinition.name)` calls createService and suspends; after the last
\* entry bindEvents returns
serviceDefinitionsLoop(k) ==
  IF k < Len(options.serviceDefinitions)
    THEN /\ creating' = TRUE
         /\ createServiceCall(options.serviceDefinitions[k + 1].service.methods,
                              options.serviceDefinitions[k + 1].service.keys,
                              options.serviceDefinitions[k + 1].name)
    ELSE /\ creating' = FALSE
         /\ UNCHANGED bindVars

\* bindEvents, one iteration of the loop over packageNames up to the first
\* await: lookupPackage, then createServices up to its first createService
bindEventsIteration ==
  /\ packageIndex' = packageIndex + 1
  /\ listenLog' = Append(listenLog, LookupEv(packageIndex + 1))
  /\ LET found == lookupPackage(grpcContext, options.package[packageIndex + 1])
     IN IF found.threw \/ createServicesThrows(found.pkg)
          THEN /\ lpc' = "rejected"
               /\ UNCHANGED <<definitions, creating>>
               /\ UNCHANGED bindVars
          ELSE /\ lpc' = "bindEvents"
               /\ definitions' = getServiceNames(found.pkg)
               /\ createServicesLoop(getServiceNames(found.pkg))

\* bindEvents from the top of an iteration of the loop over packageNames to
\* the next await: the next package, or after the last one the loop over
\* serviceDefinitions
bindEventsRun ==
  IF packageIndex < Len(options.package)
    THEN bindEventsIteration
    ELSE /\ lpc' = "bindEvents"
         /\ UNCHANGED <<packageIndex, definitions, listenLog>>
         /\ serviceDefinitionsLoop(definitionIndex)

\* listen resumes from `await this.createClient()`: this.grpcClient is
\* assigned, start calls bindEvents, which calls loadProto (rethrowing what
\* the loader throws) and enters its loops
loadProto(ok) ==
  /\ UNCHANGED <<streamVars, callVars, reqVars>>
  /\ lpc = "loadProto"
  /\ grpcClient' = "server"
  /\ IF ok
       THEN bindEventsRun
       ELSE /\ lpc' = "rejected"
            /\ UNCHANGED <<packageIndex, definitions, listenLog, creating>>
            /\ UNCHANGED bindVars
  /\ UNCHANGED <<options, definitionIndex, pendingShutdowns, resolvedShutdowns,
                 nCloses>>

\* the loop over packageNames has ended
packagesBound == packageIndex = Len(options.package) /\ definitions = <<>>

\* `await this.bindEvents()` has returned: both loops have ended
bindEventsReturnedEarly == packagesBound
bindEventsReturned ==
  packagesBound /\ definitionIndex = Len(options.serviceDefinitions)

\* bindEvents resumes from `await this.createServices(...)` of a package and
\* goes on with the next package or with the loop over serviceDefinitions
createServices ==
  /\ UNCHANGED <<streamVars, callVars, reqVars>>
  /\ lpc = "bindEvents"
  /\ ~creating
  /\ ~bindEventsReturned
  /\ bindEventsRun
  /\ UNCHANGED <<options, definitionIndex, grpcClient, pendingShutdowns, resolvedShutdowns, nCloses>>

\* createServices resumes from `await this.createService(...)`, which has
\* returned: this.grpcClient.addService, then the next iteration of its loop
addPackageService(ok) ==
  /\ UNCHANGED <<streamVars, callVars, reqVars>>
  /\ lpc = "bindEvents"
  /\ definitions # <<>>
  /\ bound
  /\ ok \in transportReturns
  /\ IF ok
       THEN /\ listenLog' = Append(listenLog,
                                   AddServiceEv(packageIndex, Head(definitions).name))
            /\ definitions' = Tail(definitions)
            /\ createServicesLoop(Tail(definitions))
            /\ UNCHANGED lpc
       ELSE /\ lpc' = "rejected"
            /\ creating' = FALSE
            /\ UNCHANGED <<listenLog, definitions>>
            /\ UNCHANGED bindVars
  /\ UNCHANGED <<options, packageIndex, definitionIndex, grpcClient,
                 pendingShutdowns, resolvedShutdowns, nCloses>>

\* bindEvents, one iteration of the loop over serviceDefinitions: it resumes
\* from `await this.createService(...)`, which has returned, calls
\* this.grpcClient.addService and enters the next iteration
addServiceDefinition(ok) ==
  /\ UNCHANGED <<streamVars, callVars, reqVars>>
  /\ lpc = "bindEvents"
  /\ packagesBound
  /\ creating
  /\ bound
  /\ ok \in transportReturns
  /\ IF ok
       THEN /\ definitionIndex' = definitionIndex + 1
            /\ listenLog' = Append(listenLog,
                   AddServiceEv(0, options.serviceDefinitions[definitionIndex + 1].name))
            /\ serviceDefinitionsLoop(definitionIndex + 1)
            /\ UNCHANGED lpc
       ELSE /\ lpc' = "rejected"
            /\ creating' = FALSE
            /\ UNCHANGED <<listenLog, definitionIndex>>
            /\ UNCHANGED bindVars
  /\ UNCHANGED <<options, packageIndex, definitions, grpcClient,
                 pendingShutdowns, resolvedShutdowns, nCloses>>

\* start resumes from `await this.bindEvents()`: this.grpcClient.start();
\* callback?.()
start(ok) ==
  /\ UNCHANGED otherThanListen
  /\ lpc = "bindEvents"
  /\ ~creating
  /\ bindEventsReturned
  /\ ok \in transportReturns
  /\ IF ok
       THEN /\ lpc' = "listening"
            /\ listenLog' = listenLog \o <<StartEv, CallbackEv(FALSE)>>
       ELSE /\ lpc' = "rejected"
            /\ UNCHANGED listenLog
  /\ UNCHANGED <<options, packageIndex, definitions, definitionIndex, grpcClient,
                 pendingShutdowns, resolvedShutdowns, nCloses, creating>>

\* the catch of listen: the rejection has passed the awaits between its
\* origin and listen, and callback(err) is invoked
listenCatch ==
  /\ UNCHANGED otherThanListen
  /\ lpc = "rejected"
  /\ lpc' = "failed"
  /\ listenLog' = Append(listenLog, CallbackEv(TRUE))
  /\ UNCHANGED <<options, packageIndex, definitions, definitionIndex, grpcClient,
                 pendingShutdowns, resolvedShutdowns, nCloses, creating>>

\* close(), up to its await or its end: with a server, tryShutdown (awaited)
\* when gracefulShutdown is set and forceShutdown otherwise; without an
\* await this.grpcClient becomes null at once
close ==
  /\ UNCHANGED otherThanListen
  /\ nCloses < MaxCloses
  /\ nCloses' = nCloses + 1
  /\ IF grpcClient = "server"
       THEN IF options.gracefulShutdown
              THEN /\ listenLog' = listenLog \o <<CloseEv, TryShutdownEv>>
                   /\ pendingShutdowns' = pendingShutdowns + 1
                   /\ UNCHANGED grpcClient
              ELSE /\ listenLog' = listenLog \o <<CloseEv, ForceShutdownEv>>
                   /\ grpcClient' = "null"
                   /\ UNCHANGED pendingShutdowns
       ELSE /\ listenLog' = Append(listenLog, CloseEv)
            /\ grpcClient' = "null"
            /\ UNCHANGED pendingShutdowns
  /\ UNCHANGED <<lpc, options, packageIndex, definitions, definitionIndex,
                 resolvedShutdowns, creating>>

\* the callback of tryShutdown: reject(error) or resolve(); close stays
\* suspended at its await until a later turn
tryShutdownCallback(error) ==
  /\ UNCHANGED otherThanListen
  /\ pendingShutdowns > 0
  /\ pendingShutdowns' = pendingShutdowns - 1
  /\ resolvedShutdowns' = IF error THEN resolvedShutdowns ELSE resolvedShutdowns + 1
  /\ UNCHANGED <<lpc, options, packageIndex, definitions, definitionIndex,
                 listenLog, grpcClient, nCloses, creating>>

\* close resumes from the await of a resolved tryShutdown:
\* this.grpcClient = null
closeResume ==
  /\ UNCHANGED otherThanListen
  /\ resolvedShutdowns > 0
  /\ resolvedShutdowns' = resolvedShutdowns - 1
  /\ grpcClient' = "null"
  /\ UNCHANGED <<lpc, options, packageIndex, definitions, definitionIndex,
                 listenLog, pendingShutdowns, nCloses, creating>>

ListenInit ==
  /\ lpc = "idle"
  /\ options = [package |-> <<>>, serviceDefinitions |-> <<>>,
                gracefulShutdown |-> FALSE]
  /\ packageIndex = 0
  /\ definitions = <<>>
  /\ definitionIndex = 0
  /\ listenLog = <<>>
  /\ grpcClient = "undefined"
  /\ pendingShutdowns = 0
  /\ resolvedShutdowns = 0
  /\ nCloses = 0
  /\ creating = FALSE

\* ------------------------------------------------------------------------
\* Specifications
\* ------------------------------------------------------------------------

\* One server-streaming call
Init == StreamInit /\ BindInit /\ CallInit /\ ReqInit /\ ListenInit
Next == StreamNext
Spec == Init /\ [][Next]_vars

\* Handler registration, then the binding of one service
InitBind == StreamInit /\ BindInit /\ CallInit /\ ReqInit /\ ListenInit
NextBind ==
  \/ \E pattern \in Patterns, callback \in Handlers :
       addHandler(pattern, callback)
  \/ \E definition \in ServiceDefinitions, name \in ServiceNames :
       \E keys \in KeyOrders(definition) : CreateService(definition, keys, name)
  \/ CreateServiceResume
SpecBind == InitBind /\ [][NextBind]_vars

\* Decorated handlers are registered, one service is bound, and one call goes
\* through a bound single-response method
InitCall == StreamInit /\ BindInit /\ CallInit /\ ReqInit /\ ListenInit
CallDefinitions ==
  {d \in ServiceDefinitions : Cardinality(DOMAIN d) <= MaxCallMethods}
NextCall ==
  \/ \E pattern \in DecoratorPatterns : addHandler(pattern, 1)
  \/ \E definition \in CallDefinitions, name \in ServiceNames :
       \E keys \in KeyOrders(definition) : CreateService(definition, keys, name)
  \/ CreateServiceResume
  \/ \E methodName \in RpcNames, r \in HandlerResults : Invoke(methodName, r)
  \/ Subscribe
  \/ \E v \in ResultValues : ResNext(v)
  \/ UnaryCallback
  \/ ResError
  \/ ResComplete
  \/ CallCancel
  \/ RequestStreamResume
  \/ \E m \in Values : CallData(m)
  \/ \E e \in ErrorStrings : CallError(e)
  \/ CallEnd
SpecCall == InitCall /\ [][NextCall]_vars

\* The request side of one call through the reactive adapter
InitReq == StreamInit /\ BindInit /\ CallInit /\ ReqInit /\ ListenInit
NextReq ==
  \/ ReqListen
  \/ \E m \in Values : CallData(m)
  \/ \E e \in ErrorStrings : CallError(e)
  \/ CallEnd
SpecReq == InitReq /\ [][NextReq]_vars

\* The start of the server
InitListen == StreamInit /\ BindInit /\ CallInit /\ ReqInit /\ ListenInit
\* the handlers registered around the start: the decorated handlers of the
\* two methods of GreetService
ListenPatterns ==
  {ObjectPattern(CanonicalOrder,
                 [service |-> <<"GreetService">>, rpc |-> "hello", streaming |-> NO_STREAMING]),
   ObjectPattern(CanonicalOrder,
                 [service |-> <<"GreetService">>, rpc |-> "Hello", streaming |-> RX_STREAMING])}
NextListen ==
  \/ \E pattern \in ListenPatterns : addHandler(pattern, 1)
  \/ CreateServiceResume
  \/ \E package \in PackageLists, serviceDefinitions \in DefinitionLists,
        gracefulShutdown \in BOOLEAN :
       listen(package, serviceDefinitions, gracefulShutdown)
  \/ \E ok \in BOOLEAN : createClient(ok)
  \/ \E ok \in BOOLEAN : loadProto(ok)
  \/ createServices
  \/ \E ok \in BOOLEAN : addPackageService(ok)
  \/ \E ok \in BOOLEAN : addServiceDefinition(ok)
  \/ \E ok \in BOOLEAN : start(ok)
  \/ listenCatch
  \/ close
  \/ \E error \in BOOLEAN : tryShutdownCallback(error)
  \/ closeResume
SpecListen == InitListen /\ [][NextListen]_vars

\* createRequestStreamMethod with isResponseStream: once the listeners are
\* registered the handler is invoked on the request sequence and awaited,
\* and its result sequence is handed to writeObservableToGrpc (no try/catch)
ReactiveStreamInvoke(outcome) ==
  /\ rqpc = "listening"
  /\ StreamInvoke(outcome)

\* the producer fails with an error whose string form is e: the writer's
\* call.emit('error', err) runs, in the same step, the 'error' listener this
\* adapter registered on the call
ReactiveSourceError(e) ==
  /\ rqpc = "listening"
  /\ sourceError
  /\ errorListener(e)
  /\ UNCHANGED <<rqpc, reqValues, dataSeen, errorsSeen>>
  /\ UNCHANGED <<bindVars, callVars, listenVars>>

\* after `await this.writeObservableToGrpc(res, call)`: the async function
\* returns, or rejects with what the writer rejected with
ReactiveStreamResume ==
  /\ UNCHANGED otherThanStream
  /\ rqpc = "listening"
  /\ spc = "await"
  /\ promise # "pending"
  /\ spc' = IF promise = "rejected" THEN "rejected" ELSE "returned"
  /\ UNCHANGED <<buffer, isComplete, clearToWrite, drainListening, cancelListening,
                 subscribed, src, produced, promise, callLog, cancels, needDrain>>

\* One call through the reactive adapter of a method with a response stream:
\* the listeners on the call and the Stream Writer on the same call
InitReactiveStream == StreamInit /\ BindInit /\ CallInit /\ ReqInit /\ ListenInit
NextReactiveStream ==
  \/ ReqListen
  \/ \E m \in Values : CallData(m)
  \/ \E e \in ErrorStrings : CallError(e)
  \/ CallEnd
  \/ \E outcome \in {"returns", "throws", "rejects"} : ReactiveStreamInvoke(outcome)
  \/ \E v \in Values, ok \in BOOLEAN : SourceNext(v, ok)
  \/ \E e \in ErrorStrings : ReactiveSourceError(e)
  \/ SourceComplete
  \/ \E ok \in BOOLEAN : Drain(ok)
  \/ Cancel
  \/ ReactiveStreamResume
SpecReactiveStream == InitReactiveStream /\ [][NextReactiveStream]_vars

\* ------------------------------------------------------------------------
\* Observations on callLog
\* ------------------------------------------------------------------------
IsPrefix(s, t) == Len(s) <= Len(t) /\ \A i \in 1..Len(s) : s[i] = t[i]

OpsOf(log, o) == SelectSeq(log, LAMBDA e : e.op = o)

\* the values passed to call.write, in order
Wire == [i \in 1..Len(OpsOf(callLog, "write")) |-> OpsOf(callLog, "write")[i].val]

EndCount == Len(OpsOf(callLog, "end"))
ErrorEmits == Len(OpsOf(callLog, "emitError"))
NoCancel == Len(OpsOf(callLog, "cancel")) = 0
NoProducerError == src # "errored"

\* positions of callLog holding operation o
Positions(o) == {i \in 1..Len(callLog) : callLog[i].op = o}
Min(S) == CHOOSE x \in S : \A y \in S : x <= y

\* ------------------------------------------------------------------------
\* Claims on the Stream Writer and the Server-Stream adapter
\* ------------------------------------------------------------------------

\* C1: without cancel and producer error, the values passed to call.write are
\* a prefix of the producer's emission sequence, and equal to it once the
\* call has been ended (no reordering, no drop, no duplicate).
C1_WireIsProducerOrder ==
  (NoCancel /\ NoProducerError) =>
     /\ IsPrefix(Wire, produced)
     /\ (EndCount > 0 => Wire = produced)

\* Supporting fact: call.end() is never invoked while a value is still
\* buffered, and never twice, when no cancel and no error occurs.
NoEndBeforeFlush ==
  (NoCancel /\ NoProducerError) =>
     /\ EndCount <= 1
     /\ (EndCount = 1 => (buffer = <<>> /\ Len(Wire) = Len(produced)))

\* The writer is idle: the producer has completed and no drain is awaited
\* (drainHandler does nothing while clearToWrite holds), so nothing but a
\* cancel runs any more.
WriterIdle == src = "completed" /\ clearToWrite

\* C2: when the producer completes with N >= 0 values buffered, call.end()
\* is invoked only after the N values were written, and exactly once: an
\* idle writer has ended the call (no cancel, no error).
C2_EndExactlyOnceAfterFlush ==
  (NoCancel /\ NoProducerError) =>
     /\ EndCount <= 1
     /\ (EndCount = 1 => (buffer = <<>> /\ Len(Wire) = Len(produced)))
     /\ (WriterIdle => EndCount = 1)

\* a cancel event found the writer running: the cancel listener ended the call
CancelledWhileRunning ==
  \E i \in Positions("end") : i > 1 /\ callLog[i - 1] = CancelEv

\* the writer runs: subscribed to its source once, and neither ended nor failed
Running == src # "cold" /\ EndCount = 0 /\ ErrorEmits = 0

\* the writer's own state
writerState == <<buffer, isComplete, clearToWrite, drainListening,
                 cancelListening, subscribed, promise>>

\* C3: a cancel event that arrives while the writer runs unsubscribes the
\* producer and ends the call in the same step; afterwards nothing is
\* written or ended any more, whatever drain or cancel events follow; and a
\* cancel event that finds the writer already terminated changes nothing.
C3_CancelEndsAndDiscards ==
  /\ [](CancelledWhileRunning =>
         LET i == Min(Positions("end")) IN
           /\ ~subscribed
           /\ EndCount = 1
           /\ \A j \in (i + 1)..Len(callLog) : callLog[j].op = "cancel")
  /\ [][cancels' # cancels =>
          IF Running
            THEN callLog' = callLog \o <<CancelEv, EndOp>> /\ ~subscribed'
            ELSE callLog' = Append(callLog, CancelEv) /\ UNCHANGED writerState]_vars

C3_Witness ==
  /\ CancelledWhileRunning
  /\ cancels = 2
  /\ Len(buffer) > 0
  /\ EndCount = 1

\* C4: a producer error yields exactly one 'error' emission on the call and
\* no call.write after it.
C4_OneErrorEmissionNoWrite ==
  src = "errored" =>
     /\ ErrorEmits = 1
     /\ \A j \in Min(Positions("emitError"))..Len(callLog) :
           callLog[j].op # "write"

\* Supporting fact: no call.write follows the producer error, buffered
\* values included.
NoWriteAfterError ==
  src = "errored" =>
     \A j \in Min(Positions("emitError"))..Len(callLog) : callLog[j].op # "write"

\* ------------------------------------------------------------------------
\* Claims on the pattern registry and the service binder
\* ------------------------------------------------------------------------

\* messageHandlers.get(createPattern(service, rpc, streaming))
Lookup(svc, rpc, streaming) ==
  MapGet(messageHandlers, createPattern(svc, rpc, streaming))

\* C6: after any sequence of addHandler calls, the lookup of the pattern
\* createPattern builds for a triple returns the handler of the most recent
\* registration made under that pattern (last write wins), and `undefined`
\* when there was none.
C6_LookupAfterRegister ==
  \A t \in Triples : Lookup(t.service, t.rpc, t.streaming) = lastCanonical[t]

\* a key registered twice, its handler found, and another triple missing
C6_Witness ==
  /\ nRegs = 2
  /\ Cardinality(DOMAIN messageHandlers) = 1
  /\ \E t \in Triples : Lookup(t.service, t.rpc, t.streaming) = 2
  /\ \E t \in Triples : Lookup(t.service, t.rpc, t.streaming) = Undefined

\* the handler registered under (bound service, rpc, streaming) when
\* createService looked the method m up
Seen(m, rpc, streaming) ==
  MapGet(lookedUp[m], createPattern(grpcService.name, rpc, streaming))

\* the streaming kind a bound method was matched under (steps 1 and 2)
MatchedKind(name, methodName, methodFunction) ==
  IF methodFunction.requestStream
    THEN IF Seen(methodName, methodName, RX_STREAMING) # Undefined
           THEN RX_STREAMING ELSE PT_STREAMING
    ELSE NO_STREAMING

\* the adapter selection table
TableAdapter(requestStream, responseStream, kind) ==
  CASE requestStream /\ kind = RX_STREAMING -> "createRequestStreamMethod"
    [] requestStream /\ kind = PT_STREAMING -> "createStreamCallMethod"
    [] ~requestStream /\ responseStream /\ kind = NO_STREAMING -> "createStreamServiceMethod"
    [] ~requestStream /\ ~responseStream /\ kind = NO_STREAMING -> "createUnaryServiceMethod"
    [] OTHER -> "none"

\* C8: every bound method is stored under its wire method name with the
\* adapter the table gives for (requestStream, responseStream, matched kind).
C8_AdapterSelection ==
  bound =>
    /\ DOMAIN service \subseteq DOMAIN grpcService.methods
    /\ \A m \in DOMAIN service :
         LET f == grpcService.methods[m] IN
           service[m].adapter =
             TableAdapter(f.requestStream, f.responseStream,
                          MatchedKind(grpcService.name, m, f))

\* a request-streaming, single-response method with only a REQUEST_ONLY
\* handler, bound to the pass-through adapter
C8_Witness ==
  /\ bound
  /\ \E m \in DOMAIN service :
       /\ grpcService.methods[m].requestStream
       /\ ~grpcService.methods[m].responseStream
       /\ Seen(m, m, RX_STREAMING) = Undefined
       /\ Seen(m, m, PT_STREAMING) # Undefined
       /\ service[m].adapter = "createStreamCallMethod"

\* the fallback pattern variants of a method, as C10 lists them
FallbackVariants(methodName, methodFunction) ==
  {<<n, k>> : n \in {methodName, methodFunction.originalName},
              k \in IF methodFunction.requestStream
                      THEN {RX_STREAMING, PT_STREAMING}
                      ELSE {NO_STREAMING}}

\* C10: after createService a method is bound if and only if a handler is
\* registered under one of its fallback pattern variants (registered when
\* createService looks the method up).
C10_BoundIffVariantRegistered ==
  bound =>
    \A m \in DOMAIN grpcService.methods :
      (m \in DOMAIN service) <=>
        (\E v \in FallbackVariants(m, grpcService.methods[m]) :
           Seen(m, v[1], v[2]) # Undefined)

\* Supporting fact: the handler of a bound method is registered under one of
\* the method's fallback pattern variants.
BoundOnlyIfVariantRegistered ==
  bound =>
    \A m \in DOMAIN service :
      \E v \in FallbackVariants(m, grpcService.methods[m]) :
        Seen(m, v[1], v[2]) = service[m].handler

\* ------------------------------------------------------------------------
\* Claims on the single-response adapters
\* ------------------------------------------------------------------------
Last(seq) == seq[Len(seq)]

\* a call through the reactive adapter whose result sequence completed
\* (no error, not cut by a cancel) and whose async function has returned
ReactiveCompleted ==
  /\ cmethod.adapter = "createRequestStreamMethod"
  /\ res = "completed"
  /\ cpc = "returned"

\* C5: when the result sequence completes without error, callback runs
\* exactly once with (null, last emitted value) if a value was emitted, and
\* not at all if none was.
C5_CallbackWithLastValue ==
  ReactiveCompleted =>
     cbLog = IF emitted # <<>> THEN <<CallbackValue(Last(emitted))>> ELSE <<>>

\* C5 as amended: callback runs exactly once with (null, last emitted value)
\* if the last emitted value is not `undefined`, and not at all if no value was
\* emitted or the last one is `undefined`; it never runs before the sequence
\* has completed.
C5_CallbackWithLastDefinedValue ==
  (cmethod.adapter = "createRequestStreamMethod" /\ res \in {"active", "completed"}
     /\ ~cancelSeen) =>
     IF cpc = "returned"
       THEN cbLog = IF emitted # <<>> /\ Last(emitted) # Undefined
                      THEN <<CallbackValue(Last(emitted))>> ELSE <<>>
       ELSE cbLog = <<>>

\* two values emitted, the sequence completed, the last one delivered
C5_Witness ==
  /\ ReactiveCompleted
  /\ Len(emitted) = 2
  /\ emitted[1] # emitted[2]
  /\ cbLog = <<CallbackValue(emitted[2])>>

\* the unary call has run to its end: the async function rejected, or the
\* result sequence terminated and every `await data` has resumed
UnarySettled ==
  /\ cmethod.adapter = "createUnaryServiceMethod"
  /\ \/ cpc = "rejected"
     \/ res \in {"completed", "errored"} /\ awaitingData = <<>>

\* C7: a method that is non-streaming in both directions and has a handler
\* registered under (service, method, NONE) is bound to that handler through
\* the unary adapter, and a call whose handler returns a value (directly or
\* through a promise) invokes callback exactly once, with (null, that value).
\* The registration is the one createService finds when it looks the method up.
C7_UnaryDispatch ==
  /\ bound =>
       \A m \in DOMAIN grpcService.methods :
         (/\ ~grpcService.methods[m].requestStream
          /\ ~grpcService.methods[m].responseStream
          /\ Seen(m, m, NO_STREAMING) # Undefined)
         => /\ m \in DOMAIN service
            /\ service[m].adapter = "createUnaryServiceMethod"
            /\ service[m].handler = Seen(m, m, NO_STREAMING)
  /\ (cmethod.adapter = "createUnaryServiceMethod" /\ result.kind \in {"value", "promise"}) =>
       /\ IsPrefix(cbLog, <<CallbackValue(result.val)>>)
       /\ (UnarySettled => cbLog = <<CallbackValue(result.val)>>)

C7_Witness ==
  /\ UnarySettled
  /\ result.kind = "promise"
  /\ result.val = 2
  /\ cbLog = <<CallbackValue(2)>>
  /\ bound
  /\ "Hello" \in DOMAIN service
  /\ service["Hello"] = cmethod
  /\ Seen("Hello", "Hello", NO_STREAMING) = cmethod.handler

\* C9: whatever the handler does, a unary call invokes callback exactly once.
C9_UnaryCallbackExactlyOnce ==
  /\ cmethod.adapter = "createUnaryServiceMethod" => Len(cbLog) <= 1
  /\ UnarySettled => Len(cbLog) = 1


\* ------------------------------------------------------------------------
\* Claims on termination and backpressure of the Stream Writer
\* ------------------------------------------------------------------------

\* The transport pays every drain it owes, and a settled promise resumes the
\* adapter function.
SpecLive ==
  /\ Init
  /\ [][Next]_vars
  /\ WF_vars(\E ok \in BOOLEAN : Drain(ok))
  /\ WF_vars(StreamResume)

\* the terminal states of one invocation, read from the call
FAILED == src = "errored"
CANCELLED == \E i \in Positions("end") : i > 1 /\ callLog[i - 1] = CancelEv
COMPLETE == \E i \in Positions("end") : i = 1 \/ callLog[i - 1] # CancelEv
Terminated == COMPLETE \/ CANCELLED \/ FAILED

\* C11: an invocation never reaches two terminal states, and once its
\* producer has completed, with every owed drain delivered and no cancel,
\* every produced value is eventually written and the invocation reaches
\* COMPLETE (call ended, promise resolved).
C11_EveryInvocationTerminates ==
  /\ [](/\ EndCount <= 1
        /\ ~(COMPLETE /\ CANCELLED)
        /\ ~(COMPLETE /\ FAILED)
        /\ ~(CANCELLED /\ FAILED))
  /\ (src = "completed" /\ NoCancel)
        ~> (~NoCancel \/ (COMPLETE /\ Wire = produced /\ promise = "resolved"))

\* C16: when the handler throws, or the result it is awaited for rejects, the
\* Server-Stream adapter emits one 'error' on the call and writes nothing.
C16_SetupFailureEmitsError ==
  spc = "rejected" => (ErrorEmits = 1 /\ Wire = <<>>)

\* C18: a writer that reached COMPLETE, CANCELLED or FAILED has both its
\* drain and its cancel listener unregistered, and no later step writes,
\* ends the call or changes the writer's state.
C18_TerminatedListenersOff ==
  /\ [](Terminated => (~drainListening /\ ~cancelListening))
  /\ [][Terminated =>
          (Wire' = Wire /\ EndCount' = EndCount /\ UNCHANGED writerState)]_vars

\* terminated with values still buffered; afterwards the transport delivered
\* a drain (nothing is owed, the writer did not notice) and a cancel
C18_Witness ==
  /\ Terminated
  /\ Len(buffer) > 0
  /\ ~clearToWrite /\ ~needDrain
  /\ Last(callLog) = CancelEv
  /\ Len(callLog) > 1 /\ callLog[Len(callLog) - 1] # EndOp

\* C19: while the transport owes a drain (call.write returned false), the
\* only step that writes is the delivery of a drain event, and every value
\* the producer emits is appended to the tail of the buffer.
C19_NoWriteWhileDrainOwed ==
  [][needDrain =>
       /\ (Wire' # Wire => \E ok \in BOOLEAN : Drain(ok))
       /\ (produced' # produced =>
             (Wire' = Wire /\ buffer' = Append(buffer, Last(produced'))))]_vars

C19_Witness ==
  /\ needDrain
  /\ Len(Wire) >= 2
  /\ Len(buffer) >= 2
  /\ Running

\* C20: a drain event that finds values buffered writes exactly the oldest
\* one; while values remain buffered, values arriving from the producer are
\* queued behind them and not written; a drain event that finds the buffer
\* empty after the producer completed ends the call.
C20_DrainWritesOldestAndStaysDraining ==
  [][/\ ((needDrain /\ drainListening /\ buffer # <<>>
           /\ \E ok \in BOOLEAN : Drain(ok)) =>
          (Wire' = Append(Wire, Head(buffer)) /\ buffer' = Tail(buffer)))
     /\ ((produced' # produced /\ buffer # <<>>) =>
          (Wire' = Wire /\ buffer' = Append(buffer, Last(produced'))))
     /\ ((needDrain /\ drainListening /\ buffer = <<>> /\ isComplete
           /\ \E ok \in BOOLEAN : Drain(ok)) =>
          EndCount' = EndCount + 1)]_vars


\* ------------------------------------------------------------------------
\* Claims on pattern keys and on the reactive adapter's error path
\* ------------------------------------------------------------------------

\* the (service, rpc, streaming) values a pattern carries: the fields of an
\* object, the members of the JSON text of a string
FieldsOf(pattern) ==
  IF pattern.isString
    THEN [k \in {"service", "rpc", "streaming"} |->
            LET i == CHOOSE j \in 1..Len(pattern.text) : pattern.text[j][1] = k
            IN pattern.text[i][2]]
    ELSE pattern.fields

\* the pattern is an object, or the string createPattern produces
ObjectOrCreatePatternString(pattern) ==
  \/ ~pattern.isString
  \/ pattern.text = createPattern(FieldsOf(pattern).service, FieldsOf(pattern).rpc,
                                  FieldsOf(pattern).streaming)

\* C13: pattern keys do not depend on field order: a registration whose
\* pattern carries a triple, given as an object in any field order or as the
\* string createPattern produces, is what a lookup of that triple finds.
C13_KeysIndependentOfFieldOrder ==
  [][\A p \in Patterns, cb \in Handlers :
       (addHandler(p, cb) /\ ObjectOrCreatePatternString(p)) =>
          MapGet(messageHandlers',
                 createPattern(FieldsOf(p).service, FieldsOf(p).rpc,
                               FieldsOf(p).streaming)) = cb]_vars

\* C15: when the result sequence of the reactive non-streaming adapter
\* errors, after zero or more values, callback is invoked exactly once, with
\* the error, and never with a value.
C15_ErrorCallbackOnly ==
  (cmethod.adapter = "createRequestStreamMethod" /\ res = "errored" /\ ~cancelSeen) =>
     cbLog = <<CallbackError>>

\* the string contains 'cancelled', whatever the case of its letters
ContainsCancelled(str) ==
  \E i \in 1..Len(str) :
     /\ i + Len(cancelled) - 1 <= Len(str)
     /\ \A k \in 1..Len(cancelled) : toLowerCase(str)[i + k - 1] = cancelled[k]

\* C14: on a call 'error' whose string form contains "cancelled" (in any
\* case) the adapter ends the call and does not fail the request sequence;
\* on any other error it fails the request sequence with that error and does
\* not end the call; every 'data' event yields one request value, in arrival
\* order, and 'end' completes the request sequence.
C14_RequestListeners ==
  [][/\ \A e \in ErrorStrings :
          CallError(e) =>
             IF ContainsCancelled(e)
               THEN listenerEnds' = listenerEnds + 1 /\ UNCHANGED <<req, reqFailure>>
               ELSE /\ listenerEnds' = listenerEnds
                    /\ (req = "open" => (req' = "errored" /\ reqFailure' = e))
     /\ \A m \in Values :
          (CallData(m) /\ req = "open") => reqValues' = Append(reqValues, m)
     /\ (CallEnd => req' = "completed")]_vars


\* ------------------------------------------------------------------------
\* Claims on the start of the server
\* ------------------------------------------------------------------------

EventsOf(e) == SelectSeq(listenLog, LAMBDA x : x.ev = e)

\* the package name resolves to no package of the loaded namespace tree
ResolvesToNoPackage(packageName) ==
  LET found == lookupPackage(grpcContext, packageName)
  IN found.threw \/ found.pkg.type = "undefined"

\* C12: when a requested package name resolves to no package, bindEvents
\* fails: the rejection reaches the catch of listen, whose callback receives
\* the error (once, and nothing else), no service of that package, of a later
\* package or of serviceDefinitions is installed, grpcClient.start() is not
\* invoked, and the package is looked up once only.
C12_MissingPackageFailsBinding ==
  /\ [](\A i \in 1..Len(options.package) :
          (i <= packageIndex /\ ResolvesToNoPackage(options.package[i])) =>
             /\ lpc \in {"rejected", "failed"}
             /\ EventsOf("callback") =
                  IF lpc = "failed" THEN <<CallbackEv(TRUE)>> ELSE <<>>
             /\ EventsOf("start") = <<>>
             /\ \A k \in 1..Len(EventsOf("addService")) :
                   EventsOf("addService")[k].idx \in 1..(i - 1)
             /\ EventsOf("lookup") = [k \in 1..i |-> LookupEv(k)]
             /\ packageIndex = i)
  /\ [][(lpc = "rejected" /\ lpc' # lpc) =>
          (lpc' = "failed" /\ listenLog' = Append(listenLog, CallbackEv(TRUE)))]_vars

\* the second package is missing; the services of the first one were added
\* and listen's callback has received the error
C12_Witness ==
  /\ lpc = "failed"
  /\ packageIndex = 2
  /\ ResolvesToNoPackage(options.package[2])
  /\ Len(EventsOf("addService")) = 2
  /\ Len(options.serviceDefinitions) > 0
  /\ EventsOf("callback") = <<CallbackEv(TRUE)>>

\* the services a configuration names: those of every package, by their
\* names relative to the package, and every serviceDefinitions entry
ServicesOfPackage(packageName) ==
  IF packageName = <<"greet", ".", "v1">>
    THEN {<<"GreetService">>, <<"admin", ".", "AdminService">>}
    ELSE IF packageName = <<"echo">> THEN {<<"EchoService">>} ELSE {}
Configured ==
  UNION {{[idx |-> i, name |-> n] : n \in ServicesOfPackage(options.package[i])} :
           i \in 1..Len(options.package)}
  \cup {[idx |-> 0, name |-> options.serviceDefinitions[k].name] :
          k \in 1..Len(options.serviceDefinitions)}
Added ==
  {[idx |-> EventsOf("addService")[k].idx, name |-> EventsOf("addService")[k].name] :
     k \in 1..Len(EventsOf("addService"))}
Started == EventsOf("start") # <<>>

\* C17: when grpcClient.start() is invoked, every configured service (of
\* every package and of serviceDefinitions) has been added with addService,
\* once, before it; and no addService follows start().
C17_AllServicesAddedBeforeStart ==
  /\ [](Started =>
          /\ Added = Configured
          /\ Len(EventsOf("addService")) = Cardinality(Configured)
          /\ \A i, j \in 1..Len(listenLog) :
               (listenLog[i].ev = "addService" /\ listenLog[j].ev = "start") => i < j)
  /\ [][Started => EventsOf("addService")' = EventsOf("addService")]_vars

\* two packages and two service definitions, all five services added
C17_Witness ==
  /\ lpc = "listening"
  /\ Len(options.package) = 2
  /\ Len(options.serviceDefinitions) = 2
  /\ Cardinality(Added) = 5


\* ------------------------------------------------------------------------
\* Claims on the preference of the reactive handler
\* ------------------------------------------------------------------------

\* both streaming handlers of a request-streaming method are registered
\* under the service and the wire method name m
BothRegistered(m) ==
  /\ Seen(m, m, RX_STREAMING) # Undefined
  /\ Seen(m, m, PT_STREAMING) # Undefined

\* C21: a request-streaming method whose REQUEST_RESPONSE_PUSH and
\* REQUEST_ONLY handlers are both registered under the same service and
\* method name is bound to the REQUEST_RESPONSE_PUSH handler through the
\* reactive adapter; the pass-through adapter with the REQUEST_ONLY handler
\* of that name is bound only when no REQUEST_RESPONSE_PUSH handler is
\* registered under it. Registered means: when createService looks the
\* method up.
C21_ReactivePreferred ==
  bound =>
    \A m \in DOMAIN grpcService.methods :
      grpcService.methods[m].requestStream =>
        /\ BothRegistered(m) =>
             /\ m \in DOMAIN service
             /\ service[m].adapter = "createRequestStreamMethod"
             /\ service[m].handler = Seen(m, m, RX_STREAMING)
        /\ (m \in DOMAIN service /\ service[m].adapter = "createStreamCallMethod") =>
             Seen(m, m, RX_STREAMING) = Undefined

\* both handlers registered, by different functions, under the wire name of
\* a method whose originalName differs; the reactive one is bound
C21_Witness ==
  /\ bound
  /\ \E m \in DOMAIN grpcService.methods :
       /\ grpcService.methods[m].requestStream
       /\ grpcService.methods[m].originalName # m
       /\ BothRegistered(m)
       /\ Seen(m, m, RX_STREAMING)
            # Seen(m, m, PT_STREAMING)
       /\ service[m].adapter = "createRequestStreamMethod"
       /\ service[m].handler = Seen(m, m, RX_STREAMING)


\* ------------------------------------------------------------------------
\* Claims on the reactive adapter with a response stream
\* ------------------------------------------------------------------------

\* C22: call.end() is invoked at most once for a call: the 'error' listener
\* of the adapter and the Stream Writer never both end it.
C22_SingleEndPerCall ==
  listenerEnds + EndCount <= 1

====
